---- MODULE Spec2Model ----
(***************************************************************************)
(* The scaffolding orchestrator of cli/src/tasks/create.ts: createCommand   *)
(* and its helpers, as a state machine.  createCommand is one async        *)
(* function; `pc` is the statement it executes next and `pending` is the   *)
(* collaborator call it is suspended on (an `await`).  A statement runs    *)
(* only when nothing is pending.  Collaborators that live outside          *)
(* create.ts (check, logFatal, runTask, the fs helpers, the platform       *)
(* mutators, the prompt) are modelled by their contract.                   *)
(***************************************************************************)
EXTENDS Naturals, Sequences, FiniteSets, TLC

VARIABLES
    os,         \* config.cli.os of the host
    dir,        \* createCommand argument dir
    name,       \* createCommand argument name
    id,         \* createCommand argument id
    run,        \* ordinal of the current invocation on this filesystem
    pc,         \* next statement of createCommand
    pending,    \* the awaited collaborator call, or NoCall
    checkIdx,   \* position of check() in its list of checks
    calls,      \* events of this run: calls, returns, prints
    appDir,     \* const appDir   (line 47)
    appName,    \* const appName  (line 53)
    appId,      \* const appId    (line 55)
    answer,     \* last value an inquirer prompt resolved to
    exists,     \* last value existsAsync resolved to
    typed,      \* what the user entered at each prompt of this run
    err,        \* the value caught at line 76
    config,     \* the Config aggregate
    fs,         \* directories that exist on the filesystem
    files,      \* what collaborators have written: <<directory, op, arg>>
    persisted,  \* the configuration files on disk: [dir, appName, appId]
    fsAtStart,  \* <<fs, files>> when the current run started
    exitCode,   \* <<status>> once the process has exited, <<>> while it lives
    fatal,      \* what logFatal reported
    past        \* target directories earlier runs created on this filesystem

vars == <<os, dir, name, id, run, pc, pending, checkIdx, calls, appDir, appName,
          appId, answer, exists, typed, err, config, fs, files, persisted, fsAtStart,
          exitCode, fatal, past>>

\* fixed for the length of one run
env == <<os, dir, name, id, run, fsAtStart, past>>
\* the locals of createCommand
locals == <<appDir, appName, appId>>
\* the filesystem
disk == <<fs, files, persisted>>
\* the process's end
ending == <<exitCode, fatal>>

-----------------------------------------------------------------------------
(* Bounds and input domains *)

MaxRuns == 2

Unset == "undefined"

OSes == {"mac", "linux", "windows"}
DirArgs == {"", "myapp"}
NameArgs == {"", "My App"}
IdArgs == {"", "com.example.myapp"}

\* what the user may type at a prompt, per prompted parameter
Typed(field) ==
    CASE field = "dir" -> {"", "myapp", "apps/other"}
      [] field = "name" -> {"", "My App"}
      [] OTHER -> {"", "com.example.myapp"}

\* a rejected promise carries a plain string or an Error object
ErrTypes == {"string", "object"}

NoCall == [op |-> "none", arg |-> "", dflt |-> ""]
NoErr == [type |-> "none", from |-> "none"]
NoFatal == [kind |-> "none", dir |-> "", type |-> "none"]
NoExit == <<>>
NoneTyped == [dir |-> Unset, name |-> Unset, id |-> Unset]

Ev(op, ev, arg) == [op |-> op, ev |-> ev, arg |-> arg]

-----------------------------------------------------------------------------
(* Collaborators, by contract *)

InitConfig == [cwd |-> ".", appName |-> Unset, appId |-> Unset,
               bundledWebRuntime |-> FALSE]

\* the collaborators that write to the filesystem
Mutators == {"mkdirAsync", "getOrCreateConfig", "cpAsync", "npmInstall",
             "addIOS", "addAndroid", "sync", "editProjectSettingsIOS",
             "editProjectSettingsAndroid", "copy"}

\* logFatal(...): logError(...) then process.exit(1); it never returns
logFatal(kind, d, type) ==
    /\ fatal' = [kind |-> kind, dir |-> d, type |-> type]
    /\ exitCode' = <<1>>
    /\ pc' = "exited"

\* runTask(title, fn): start indicator, then fn; success indicator when fn is done
runTaskStart(title) == Ev("runTask", "start", title)
runTaskSucceed(title) == Ev("runTask", "succeed", title)

-----------------------------------------------------------------------------
(* createCommand, lines 31-85 *)

\* the checks listed in another order
ChecksSwapped == <<"checkAppId", "checkAppDir", "checkAppName">>

\* the ordered checks handed to check(), lines 36-40
Checks == <<"checkAppDir", "checkAppId", "checkAppName">>

\* the value each check is given: checkAppDir(config, dir),
\* checkAppId(config, id), checkAppName(config, name), lines 37-39
CheckArg(c) ==
    CASE c = "checkAppDir" -> dir
      [] c = "checkAppId" -> id
      [] c = "checkAppName" -> name

\* a rejection that is swallowed: the statements after the call go on
ThrowSwallowed(e) ==
    /\ pc' = pc
    /\ err' = e

\* a rejection of an awaited call inside try { } lands in catch (e), lines 33/76
Throw(e) ==
    /\ pc' = "catch"
    /\ err' = e

\* await f(...): suspend on the call; the next statement runs when it resolved
Await(op, arg, dflt, next) ==
    /\ pending' = [op |-> op, arg |-> arg, dflt |-> dflt]
    /\ calls' = Append(calls, Ev(op, "call", arg))
    /\ pc' = next

\* await runTask(title, () => f(...)): the same, behind runTask's start indicator
AwaitInTask(title, op, arg, next) ==
    /\ pending' = [op |-> op, arg |-> arg, dflt |-> ""]
    /\ calls' = calls \o <<runTaskStart(title), Ev(op, "call", arg)>>
    /\ pc' = next

\* the statement at `at` is next and no await is outstanding
At(at) == pc = at /\ pending = NoCall

Init ==
    /\ os \in OSes
    /\ dir \in DirArgs
    /\ name \in NameArgs
    /\ id \in IdArgs
    /\ run = 1
    /\ pc = "check"
    /\ pending = NoCall
    /\ checkIdx = 1
    /\ calls = <<>>
    /\ appDir = Unset
    /\ appName = Unset
    /\ appId = Unset
    /\ answer = Unset
    /\ exists = FALSE
    /\ typed = NoneTyped
    /\ err = NoErr
    /\ config = InitConfig
    /\ fs \in {{}, {"myapp"}}
    /\ files = {}
    /\ persisted = {}
    /\ fsAtStart = <<fs, files>>
    /\ exitCode = NoExit
    /\ fatal = NoFatal
    /\ past = {}

\* check(config, [...]) without its await: createCommand goes on at once
CallCheckNoAwait ==
    /\ At("check")
    /\ calls' = Append(calls, Ev("check", "call", ""))
    /\ pc' = "welcome"
    /\ UNCHANGED <<env, locals, pending, checkIdx, answer, exists, typed, err, config,
                   disk, ending>>

\* await check(config, [...]), lines 34-41
CallCheck ==
    /\ At("check")
    /\ Await("check", "", "", "welcome")
    /\ checkIdx' = 1
    /\ UNCHANGED <<env, locals, answer, exists, typed, err, config, disk, ending>>

\* check(config, checks): the checks in order, the first failure propagated
check ==
    /\ pending.op = "check"
    /\ \E ok \in BOOLEAN :
        LET c == Checks[checkIdx]
            last == checkIdx = Len(Checks)
        IN  IF ok
            THEN /\ calls' = calls \o <<Ev(c, "call", CheckArg(c)),
                                         Ev(c, "ok", CheckArg(c))>>
                                  \o (IF last THEN <<Ev("check", "ok", "")>> ELSE <<>>)
                 /\ pending' = IF last THEN NoCall ELSE pending
                 /\ checkIdx' = IF last THEN checkIdx ELSE checkIdx + 1
                 /\ UNCHANGED <<pc, err>>
            ELSE /\ calls' = calls \o <<Ev(c, "call", CheckArg(c)),
                                         Ev(c, "fail", CheckArg(c)),
                                         Ev("check", "fail", c)>>
                 /\ pending' = NoCall
                 /\ Throw([type |-> "string", from |-> c])
                 /\ UNCHANGED checkIdx
    /\ UNCHANGED <<env, locals, answer, exists, typed, config, disk, ending>>

\* log(Welcome to Capacitor ...), lines 43-44
Welcome ==
    /\ At("welcome")
    /\ calls' = Append(calls, Ev("log", "print", "welcome"))
    /\ pc' = "getDir"
    /\ UNCHANGED <<env, locals, pending, checkIdx, answer, exists, typed, err, config,
                   disk, ending>>

\* const appDir = await getDir(config, dir), lines 47 and 87-97
getDir ==
    /\ At("getDir")
    /\ IF dir = ""
       THEN /\ Await("prompt", "dir", "", "getDirAnswer")
            /\ UNCHANGED appDir
       ELSE /\ appDir' = dir
            /\ pc' = "makeDirectory"
            /\ UNCHANGED <<pending, calls>>
    /\ UNCHANGED <<env, appName, appId, checkIdx, answer, exists, typed, err, config,
                   disk, ending>>

\* return answers.dir, line 94
getDirAnswer ==
    /\ At("getDirAnswer")
    /\ appDir' = answer
    /\ pc' = "makeDirectory"
    /\ UNCHANGED <<env, appName, appId, pending, checkIdx, calls, answer, exists, typed,
                   err, config, disk, ending>>

\* existsAsync asked about the dir argument instead of the resolved directory
makeDirectoryRawDir ==
    /\ At("makeDirectory")
    /\ Await("existsAsync", dir, "", "makeDirectoryExists")
    /\ UNCHANGED <<env, locals, checkIdx, answer, exists, typed, err, config, disk, ending>>

\* await makeDirectory(config, appDir): await existsAsync(dir), lines 49 and 126
makeDirectory ==
    /\ At("makeDirectory")
    /\ Await("existsAsync", appDir, "", "makeDirectoryExists")
    /\ UNCHANGED <<env, locals, checkIdx, answer, exists, typed, err, config, disk, ending>>

\* makeDirectory without the existence test
makeDirectoryExistsUnchecked ==
    /\ At("makeDirectoryExists")
    /\ Await("mkdirAsync", appDir, "", "setCurrentWorkingDir")
    /\ UNCHANGED <<env, locals, checkIdx, answer, exists, typed, err, config, disk, ending>>

\* makeDirectory with mkdirAsync(dir) not awaited
makeDirectoryExistsNoAwait ==
    /\ At("makeDirectoryExists")
    /\ IF exists
       THEN /\ calls' = Append(calls, Ev("logFatal", "print", appDir))
            /\ logFatal("exists", appDir, "string")
       ELSE /\ calls' = Append(calls, Ev("mkdirAsync", "call", appDir))
            /\ pc' = "setCurrentWorkingDir"
            /\ UNCHANGED ending
    /\ UNCHANGED <<env, locals, pending, checkIdx, answer, exists, typed, err, config,
                   disk>>

\* if (exists) logFatal(The directory ... already exists); await mkdirAsync(dir),
\* lines 126-130
makeDirectoryExists ==
    /\ At("makeDirectoryExists")
    /\ IF exists
       THEN /\ calls' = Append(calls, Ev("logFatal", "print", appDir))
            /\ logFatal("exists", appDir, "string")
            /\ UNCHANGED pending
       ELSE /\ Await("mkdirAsync", appDir, "", "setCurrentWorkingDir")
            /\ UNCHANGED ending
    /\ UNCHANGED <<env, locals, checkIdx, answer, exists, typed, err, config, disk>>

\* the working directory left as it was
setCurrentWorkingDirSkipped ==
    /\ At("setCurrentWorkingDir")
    /\ calls' = Append(calls, Ev("setCurrentWorkingDir", "done", appDir))
    /\ pc' = "getName"
    /\ UNCHANGED <<env, locals, pending, checkIdx, answer, exists, typed, err, config,
                   disk, ending>>

\* config.setCurrentWorkingDir(appDir), line 51
setCurrentWorkingDir ==
    /\ At("setCurrentWorkingDir")
    /\ config' = [config EXCEPT !.cwd = appDir]
    /\ calls' = Append(calls, Ev("setCurrentWorkingDir", "done", appDir))
    /\ pc' = "getName"
    /\ UNCHANGED <<env, locals, pending, checkIdx, answer, exists, typed, err, disk, ending>>

\* getName with no default in its question
getNameNoDefault ==
    /\ At("getName")
    /\ IF name = ""
       THEN /\ Await("prompt", "name", "", "getNameAnswer")
            /\ UNCHANGED appName
       ELSE /\ appName' = name
            /\ pc' = "getAppId"
            /\ UNCHANGED <<pending, calls>>
    /\ UNCHANGED <<env, appDir, appId, checkIdx, answer, exists, typed, err, config,
                   disk, ending>>

\* const appName = await getName(config, name), lines 53 and 99-110
getName ==
    /\ At("getName")
    /\ IF name = ""
       THEN /\ Await("prompt", "name", "App", "getNameAnswer")
            /\ UNCHANGED appName
       ELSE /\ appName' = name
            /\ pc' = "getAppId"
            /\ UNCHANGED <<pending, calls>>
    /\ UNCHANGED <<env, appDir, appId, checkIdx, answer, exists, typed, err, config,
                   disk, ending>>

\* return answers.name, line 107
getNameAnswer ==
    /\ At("getNameAnswer")
    /\ appName' = answer
    /\ pc' = "getAppId"
    /\ UNCHANGED <<env, appDir, appId, pending, checkIdx, calls, answer, exists, typed,
                   err, config, disk, ending>>

\* const appId = await getAppId(config, id), lines 55 and 112-123
getAppId ==
    /\ At("getAppId")
    /\ IF id = ""
       THEN /\ Await("prompt", "id", "com.example.app", "getAppIdAnswer")
            /\ UNCHANGED appId
       ELSE /\ appId' = id
            /\ pc' = "setDefaults"
            /\ UNCHANGED <<pending, calls>>
    /\ UNCHANGED <<env, appDir, appName, checkIdx, answer, exists, typed, err, config,
                   disk, ending>>

\* return answers.id, line 120
getAppIdAnswer ==
    /\ At("getAppIdAnswer")
    /\ appId' = answer
    /\ pc' = "setDefaults"
    /\ UNCHANGED <<env, appDir, appName, pending, checkIdx, calls, answer, exists, typed,
                   err, config, disk, ending>>

\* the defaults with the assignment of appId left out
setDefaultsNoAppId ==
    /\ At("setDefaults")
    /\ config' = [config EXCEPT !.appName = appName, !.bundledWebRuntime = TRUE]
    /\ calls' = Append(calls, Ev("setDefaults", "done", ""))
    /\ pc' = "getOrCreateConfig"
    /\ UNCHANGED <<env, locals, pending, checkIdx, answer, exists, typed, err, disk, ending>>

\* config.app.appName = appName; config.app.appId = appId;
\* config.app.bundledWebRuntime = true, lines 58-60
setDefaults ==
    /\ At("setDefaults")
    /\ config' = [config EXCEPT !.appName = appName, !.appId = appId,
                                !.bundledWebRuntime = TRUE]
    /\ calls' = Append(calls, Ev("setDefaults", "done", ""))
    /\ pc' = "getOrCreateConfig"
    /\ UNCHANGED <<env, locals, pending, checkIdx, answer, exists, typed, err, disk, ending>>

\* await getOrCreateConfig(config), line 62
callGetOrCreateConfig ==
    /\ At("getOrCreateConfig")
    /\ Await("getOrCreateConfig", config.cwd, "", "create")
    /\ UNCHANGED <<env, locals, checkIdx, answer, exists, typed, err, config, disk, ending>>

\* create whose task does not return cpAsync's promise: nothing waits for the copy
createNoAwait ==
    /\ At("create")
    /\ calls' = calls \o <<runTaskStart("create"), Ev("cpAsync", "call", appDir)>>
    /\ pc' = "createDone"
    /\ UNCHANGED <<env, locals, pending, checkIdx, answer, exists, typed, err, config,
                   disk, ending>>

\* await create(config, appDir, appName, appId): runTask(Creating app ...,
\* () => cpAsync(templateDir, dir)), lines 65 and 133-139
create ==
    /\ At("create")
    /\ AwaitInTask("create", "cpAsync", appDir, "createDone")
    /\ UNCHANGED <<env, locals, checkIdx, answer, exists, typed, err, config, disk, ending>>

\* runTask's success indicator once cpAsync resolved, line 136
createDone ==
    /\ At("createDone")
    /\ calls' = Append(calls, runTaskSucceed("create"))
    /\ pc' = "installDeps"
    /\ UNCHANGED <<env, locals, pending, checkIdx, answer, exists, typed, err, config,
                   disk, ending>>

\* await installDeps(config, appDir): runTask(Installing dependencies,
\* () => runCommand(cd dir && npm install ...)), lines 67 and 141-145
installDeps ==
    /\ At("installDeps")
    /\ AwaitInTask("installDeps", "npmInstall", appDir, "installDepsDone")
    /\ UNCHANGED <<env, locals, checkIdx, answer, exists, typed, err, config, disk, ending>>

\* runTask's success indicator once runCommand resolved, line 142
installDepsDone ==
    /\ At("installDepsDone")
    /\ calls' = Append(calls, runTaskSucceed("installDeps"))
    /\ pc' = "addPlatforms"
    /\ UNCHANGED <<env, locals, pending, checkIdx, answer, exists, typed, err, config,
                   disk, ending>>

\* addPlatforms without the test of the host OS
addPlatformsAlways ==
    /\ At("addPlatforms")
    /\ calls' = Append(calls, runTaskStart("addPlatforms"))
    /\ pc' = "addIOS"
    /\ UNCHANGED <<env, locals, pending, checkIdx, answer, exists, typed, err, config,
                   disk, ending>>

\* await addPlatforms(config, appDir): runTask(add default platforms, ...) and
\* if (config.cli.os == OS.Mac), lines 69 and 148-149
addPlatforms ==
    /\ At("addPlatforms")
    /\ calls' = Append(calls, runTaskStart("addPlatforms"))
    /\ pc' = IF os = "mac" THEN "addIOS" ELSE "addAndroid"
    /\ UNCHANGED <<env, locals, pending, checkIdx, answer, exists, typed, err, config,
                   disk, ending>>

\* addIOS with the iOS sync left out
callAddIOSNoSync ==
    /\ At("addIOS")
    /\ Await("addIOS", "", "", "addAndroid")
    /\ UNCHANGED <<env, locals, checkIdx, answer, exists, typed, err, config, disk, ending>>

\* await addIOS(config), line 150
callAddIOS ==
    /\ At("addIOS")
    /\ Await("addIOS", "", "", "syncIOS")
    /\ UNCHANGED <<env, locals, checkIdx, answer, exists, typed, err, config, disk, ending>>

\* await sync(config, config.ios.name), line 151
syncIOS ==
    /\ At("syncIOS")
    /\ Await("sync", "ios", "", "addAndroid")
    /\ UNCHANGED <<env, locals, checkIdx, answer, exists, typed, err, config, disk, ending>>

\* await addAndroid(config), line 153
callAddAndroid ==
    /\ At("addAndroid")
    /\ Await("addAndroid", "", "", "syncAndroid")
    /\ UNCHANGED <<env, locals, checkIdx, answer, exists, typed, err, config, disk, ending>>

\* await sync(config, config.android.name), line 154
syncAndroid ==
    /\ At("syncAndroid")
    /\ Await("sync", "android", "", "addPlatformsDone")
    /\ UNCHANGED <<env, locals, checkIdx, answer, exists, typed, err, config, disk, ending>>

\* runTask's success indicator once the platforms are added, line 148
addPlatformsDone ==
    /\ At("addPlatformsDone")
    /\ calls' = Append(calls, runTaskSucceed("addPlatforms"))
    /\ pc' = "editPlatforms"
    /\ UNCHANGED <<env, locals, pending, checkIdx, answer, exists, typed, err, config,
                   disk, ending>>

\* await editPlatforms(config, appName, appId): if (config.cli.os == OS.Mac)
\*   await editProjectSettingsIOS(config), lines 71 and 159-161
editPlatforms ==
    /\ At("editPlatforms")
    /\ IF os = "mac"
       THEN Await("editProjectSettingsIOS", "", "", "editAndroid")
       ELSE Await("editProjectSettingsAndroid", "", "", "copy")
    /\ UNCHANGED <<env, locals, checkIdx, answer, exists, typed, err, config, disk, ending>>

\* await editProjectSettingsAndroid(config) after the iOS edit, line 162
editAndroid ==
    /\ At("editAndroid")
    /\ Await("editProjectSettingsAndroid", "", "", "copy")
    /\ UNCHANGED <<env, locals, checkIdx, answer, exists, typed, err, config, disk, ending>>

\* await copy(config, config.web.name), line 73
callCopy ==
    /\ At("copy")
    /\ Await("copy", "web", "", "printNextSteps")
    /\ UNCHANGED <<env, locals, checkIdx, answer, exists, typed, err, config, disk, ending>>

\* path.basename(p): the last component of p, line 168
basename(p) ==
    CASE p = "apps/other" -> "other"
      [] p = "apps/myapp" -> "myapp"
      [] OTHER -> p

\* printNextSteps(config): ... log(cd ./${basename(config.app.rootDir)}) ...,
\* lines 75 and 165-170
printNextSteps ==
    /\ At("printNextSteps")
    /\ calls' = Append(calls, Ev("printNextSteps", "print", basename(config.cwd)))
    /\ pc' = "done"
    /\ UNCHANGED <<env, locals, pending, checkIdx, answer, exists, typed, err, config,
                   disk, ending>>

\* catch (e) printing the usage lines whatever e is
catchAlwaysUsage ==
    /\ At("catch")
    /\ calls' = calls \o <<Ev("log", "print", "usage"), Ev("log", "print", "example"),
                            Ev("logFatal", "print", err.from)>>
    /\ logFatal("error", "", err.type)
    /\ UNCHANGED <<env, locals, pending, checkIdx, answer, exists, typed, err, config, disk>>

\* catch (e) that runs the dependency install a second time when it failed first
catchRetryInstall ==
    /\ At("catch")
    /\ IF err.from = "npmInstall"
          /\ Cardinality({i \in DOMAIN calls : calls[i] = Ev("npmInstall", "call", appDir)}) = 1
       THEN /\ pc' = "installDeps"
            /\ err' = NoErr
            /\ UNCHANGED <<calls, ending>>
       ELSE /\ calls' = calls
                        \o (IF err.type = "string"
                            THEN <<Ev("log", "print", "usage"), Ev("log", "print", "example")>>
                            ELSE <<>>)
                        \o <<Ev("logFatal", "print", err.from)>>
            /\ logFatal("error", "", err.type)
            /\ UNCHANGED err
    /\ UNCHANGED <<env, locals, pending, checkIdx, answer, exists, typed, config, disk>>

\* catch (e) that puts the configuration back as it was before the run
catchRollback ==
    /\ At("catch")
    /\ calls' = calls
                \o (IF err.type = "string"
                    THEN <<Ev("log", "print", "usage"), Ev("log", "print", "example")>>
                    ELSE <<>>)
                \o <<Ev("logFatal", "print", err.from)>>
    /\ logFatal("error", "", err.type)
    /\ config' = InitConfig
    /\ UNCHANGED <<env, locals, pending, checkIdx, answer, exists, typed, err, disk>>

\* catch (e): the usage lines for a string, then logFatal(e), lines 76-84
catch ==
    /\ At("catch")
    /\ calls' = calls
                \o (IF err.type = "string"
                    THEN <<Ev("log", "print", "usage"), Ev("log", "print", "example")>>
                    ELSE <<>>)
                \o <<Ev("logFatal", "print", err.from)>>
    /\ logFatal("error", "", err.type)
    /\ UNCHANGED <<env, locals, pending, checkIdx, answer, exists, typed, err, config, disk>>

-----------------------------------------------------------------------------
(* The awaited collaborators resolving or rejecting *)

\* where a collaborator writes: cpAsync and npm install in `dir`, the others
\* under config.app.rootDir
WrittenAt(call) ==
    IF call.op \in {"cpAsync", "npmInstall"} THEN call.arg ELSE config.cwd

\* getOrCreateConfig(config): with no configuration file at the workspace root,
\* write one from the configuration; otherwise load the one that is there
getOrCreateConfig ==
    LET here == {p \in persisted : p.dir = config.cwd}
    IN  IF here = {}
        THEN /\ persisted' = persisted \cup {[dir |-> config.cwd,
                                               appName |-> config.appName,
                                               appId |-> config.appId]}
             /\ UNCHANGED config
        ELSE /\ config' = [config EXCEPT !.appName = (CHOOSE p \in here : TRUE).appName,
                                         !.appId = (CHOOSE p \in here : TRUE).appId]
             /\ UNCHANGED persisted

\* the awaited call resolves; an inquirer input prompt resolves to what the
\* user entered, or to the question's default when that is empty
Resolve ==
    /\ pending.op \notin {"none", "check"}
    /\ pending.op = "mkdirAsync" => pending.arg \notin fs
    /\ IF pending.op = "prompt"
       THEN \E t \in Typed(pending.arg) :
              /\ typed' = [typed EXCEPT ![pending.arg] = t]
              /\ answer' = IF t = "" THEN pending.dflt ELSE t
       ELSE UNCHANGED <<answer, typed>>
    /\ exists' = IF pending.op = "existsAsync" THEN pending.arg \in fs ELSE exists
    /\ fs' = IF pending.op = "mkdirAsync" THEN fs \cup {pending.arg} ELSE fs
    /\ files' = IF pending.op \in Mutators \ {"mkdirAsync"}
                THEN files \cup {<<WrittenAt(pending), pending.op, pending.arg>>}
                ELSE files
    /\ IF pending.op = "getOrCreateConfig"
       THEN getOrCreateConfig
       ELSE UNCHANGED <<persisted, config>>
    /\ calls' = Append(calls, Ev(pending.op, "ok", pending.arg))
    /\ pending' = NoCall
    /\ UNCHANGED <<env, locals, pc, checkIdx, err, ending>>

\* the awaited call rejects (existsAsync never does)
Reject ==
    /\ pending.op \notin {"none", "check", "existsAsync"}
    /\ \E t \in ErrTypes : Throw([type |-> t, from |-> pending.op])
    /\ calls' = Append(calls, Ev(pending.op, "fail", pending.arg))
    /\ pending' = NoCall
    /\ UNCHANGED <<env, locals, checkIdx, answer, exists, typed, config, disk, ending>>

-----------------------------------------------------------------------------
(* One invocation after the other on the same filesystem *)

Provisioned == \E i \in DOMAIN calls : calls[i] = Ev("mkdirAsync", "ok", appDir)

\* the command is run again with the same arguments on the same host; the
\* answers at the prompts may differ
NextRun ==
    /\ pc \in {"done", "exited"}
    /\ run < MaxRuns
    /\ run' = run + 1
    /\ past' = IF Provisioned THEN past \cup {appDir} ELSE past
    /\ fsAtStart' = <<fs, files>>
    /\ pc' = "check"
    /\ pending' = NoCall
    /\ checkIdx' = 1
    /\ calls' = <<>>
    /\ appDir' = Unset
    /\ appName' = Unset
    /\ appId' = Unset
    /\ answer' = Unset
    /\ exists' = FALSE
    /\ typed' = NoneTyped
    /\ err' = NoErr
    /\ config' = InitConfig
    /\ exitCode' = NoExit
    /\ fatal' = NoFatal
    /\ UNCHANGED <<os, dir, name, id, disk>>

Step ==
    \/ CallCheck \/ check \/ Welcome
    \/ getDir \/ getDirAnswer
    \/ makeDirectory \/ makeDirectoryExists \/ setCurrentWorkingDir
    \/ getName \/ getNameAnswer \/ getAppId \/ getAppIdAnswer
    \/ setDefaults \/ callGetOrCreateConfig
    \/ create \/ createDone \/ installDeps \/ installDepsDone
    \/ addPlatforms \/ callAddIOS \/ syncIOS \/ callAddAndroid \/ syncAndroid
    \/ addPlatformsDone \/ editPlatforms \/ editAndroid
    \/ callCopy \/ printNextSteps \/ catch
    \/ Resolve \/ Reject

Next == Step

Spec == Init /\ [][Next]_vars

\* a run whose awaited calls all resolve or reject and whose continuations are
\* then run by the event loop
SpecLive == Spec /\ WF_vars(Next)

\* the same program, invoked again once an invocation has ended
NextRerun == Next \/ NextRun

SpecRerun == Init /\ [][NextRerun]_vars

-----------------------------------------------------------------------------
(* Vocabulary of the properties *)

Has(e) == \E i \in DOMAIN calls : calls[i] = e
Before(e, i) == \E j \in 1..(i - 1) : calls[j] = e
Passed(c) == \E i \in DOMAIN calls : calls[i].op = c /\ calls[i].ev = "ok"
PassedBefore(c, i) == \E j \in 1..(i - 1) : calls[j].op = c /\ calls[j].ev = "ok"
FailedIn(c) == \E i \in DOMAIN calls : calls[i].op = c /\ calls[i].ev = "fail"
Invoked(op) == \E i \in DOMAIN calls : calls[i].op = op /\ calls[i].ev = "call"
IsPrefix(s, t) == Len(s) <= Len(t) /\ s = SubSeq(t, 1, Len(s))
IsCheckEv(e) == e.op \in {"checkAppDir", "checkAppId", "checkAppName"}
IsPlatformEv(e) ==
    e.op \in {"addIOS", "addAndroid", "sync", "editProjectSettingsIOS",
              "editProjectSettingsAndroid"}
IsPlatformCall(e) == IsPlatformEv(e) /\ e.ev = "call"
Failed == pc \in {"catch", "exited"}

-----------------------------------------------------------------------------
(* C1: no filesystem-mutating collaborator is invoked before checkAppDir,   *)
(* checkAppId and checkAppName have all completed without failure, and a   *)
(* run that failed validation has invoked none of them and left the        *)
(* filesystem as it found it.                                              *)
C1_ValidationBeforeMutation ==
    /\ \A i \in DOMAIN calls :
         calls[i].op \in Mutators =>
           /\ PassedBefore("checkAppDir", i)
           /\ PassedBefore("checkAppId", i)
           /\ PassedBefore("checkAppName", i)
    /\ err.from \in {"checkAppDir", "checkAppId", "checkAppName"} =>
         /\ \A i \in DOMAIN calls : calls[i].op \notin Mutators
         /\ <<fs, files>> = fsAtStart

\* a run that ended on a failed checkAppName
C1_Witness ==
    pc = "exited" /\ err.from = "checkAppName" /\ Passed("checkAppId")

(* C2: the checks run in the order checkAppDir, checkAppId, checkAppName;   *)
(* after a failing check no later check runs, and the failure that leaves  *)
(* validation is the failure of that check.                                *)
C2_ChecksInOrderFailFast ==
    LET evs == SelectSeq(calls, IsCheckEv)
        order == <<"checkAppDir", "checkAppId", "checkAppName">>
    IN  /\ Len(evs) <= 6
        /\ \A k \in 1..Len(evs) :
             /\ evs[k].op = order[(k + 1) \div 2]
             /\ evs[k].ev = IF k % 2 = 1 THEN "call"
                            ELSE IF k = Len(evs) THEN evs[k].ev ELSE "ok"
             /\ evs[k].ev \in {"call", "ok", "fail"}
        /\ \A k \in 1..Len(evs) :
             evs[k].ev = "fail" =>
               /\ k = Len(evs)
               /\ err = [type |-> "string", from |-> evs[k].op]
               /\ Failed
        /\ err.from \in {"checkAppDir", "checkAppId", "checkAppName"} =>
             FailedIn(err.from)

\* checkAppId failed after checkAppDir passed; checkAppName never ran
C2_Witness ==
    /\ Passed("checkAppDir")
    /\ FailedIn("checkAppId")
    /\ ~Invoked("checkAppName")
    /\ pc = "exited"

(* C3: when existsAsync found the resolved target directory, the run ends   *)
(* in logFatal with a message naming that directory, and mkdirAsync,       *)
(* setCurrentWorkingDir, getOrCreateConfig, the template copy, the         *)
(* dependency install and every platform add, sync and edit are never      *)
(* invoked.                                                                *)
C3_ExistingDirIsFatal ==
    (Has(Ev("existsAsync", "ok", appDir)) /\ appDir \in fsAtStart[1]) =>
      /\ \A i \in DOMAIN calls :
           /\ calls[i].op \notin Mutators
           /\ calls[i].op # "setCurrentWorkingDir"
      /\ <<fs, files>> = fsAtStart
      /\ config = InitConfig
      /\ \/ pc = "makeDirectoryExists" /\ pending = NoCall
         \/ /\ pc = "exited"
            /\ fatal = [kind |-> "exists", dir |-> appDir, type |-> "string"]
            /\ calls[Len(calls)] = Ev("logFatal", "print", appDir)
            /\ exitCode = <<1>>

\* the run ended on the existing directory myapp
C3_Witness ==
    exists /\ pc = "exited" /\ fatal.kind = "exists" /\ fatal.dir = "myapp"

(* C4: on a host that is not macOS no iOS collaborator is ever invoked; the *)
(* platform collaborators invoked are addAndroid, sync(android) and        *)
(* editProjectSettingsAndroid, in that order.                              *)
C4_NoIOSOffMac ==
    os # "mac" =>
      LET pcalls == SelectSeq(calls, IsPlatformCall)
          android == <<Ev("addAndroid", "call", ""), Ev("sync", "call", "android"),
                       Ev("editProjectSettingsAndroid", "call", "")>>
      IN  /\ IsPrefix(pcalls, android)
          /\ \A i \in DOMAIN calls :
               /\ calls[i].op \notin {"addIOS", "editProjectSettingsIOS"}
               /\ ~(calls[i].op = "sync" /\ calls[i].arg = "ios")
          /\ pc = "done" => pcalls = android

\* a completed run on linux
C4_Witness ==
    os = "linux" /\ pc = "done" /\ Invoked("editProjectSettingsAndroid")

(* C5: on macOS the platform collaborators are invoked in the order addIOS, *)
(* sync(ios), addAndroid, sync(android), editProjectSettingsIOS,           *)
(* editProjectSettingsAndroid, each one only after the one before it has   *)
(* completed successfully.                                                 *)
C5_MacPlatformOrder ==
    os = "mac" =>
      LET evs == SelectSeq(calls, IsPlatformEv)
          order == <<Ev("addIOS", "call", ""), Ev("sync", "call", "ios"),
                     Ev("addAndroid", "call", ""), Ev("sync", "call", "android"),
                     Ev("editProjectSettingsIOS", "call", ""),
                     Ev("editProjectSettingsAndroid", "call", "")>>
      IN  /\ Len(evs) <= 2 * Len(order)
          /\ \A k \in 1..Len(evs) :
               LET c == order[(k + 1) \div 2]
               IN  IF k % 2 = 1
                   THEN evs[k] = c
                   ELSE \/ evs[k] = Ev(c.op, "ok", c.arg)
                        \/ evs[k] = Ev(c.op, "fail", c.arg) /\ k = Len(evs)
          /\ pc = "done" => Len(evs) = 2 * Len(order)

\* a completed run on macOS
C5_Witness ==
    os = "mac" /\ pc = "done" /\ Invoked("editProjectSettingsIOS")

(* C6: Failed is absorbing.  Once a check, a prompt or a collaborator has    *)
(* failed, or logFatal was called, the run is in catch or has exited; from *)
(* there it never leaves, invokes no collaborator, changes neither the     *)
(* filesystem nor the configuration, and prints only the usage lines and   *)
(* the fatal report, never the success report.                             *)
C6_FailedIsAbsorbing ==
    /\ []((\/ \E i \in DOMAIN calls : calls[i].ev = "fail"
           \/ fatal # NoFatal
           \/ err # NoErr) => Failed)
    /\ [][Failed =>
            /\ Failed'
            /\ pc = "exited" => pc' = "exited"
            /\ pending' = NoCall
            /\ <<fs, files, config>>' = <<fs, files, config>>
            /\ IsPrefix(calls, calls')
            /\ \A i \in (Len(calls) + 1)..Len(calls') :
                 /\ calls'[i].ev = "print"
                 /\ calls'[i].op \in {"log", "logFatal"}]_vars

\* the dependency install failed and the run has exited
C6_Witness ==
    pc = "exited" /\ err.from = "npmInstall" /\ ~Invoked("addAndroid")

(* C7: the two usage lines are printed exactly when the caught failure is a *)
(* plain string, right before the fatal report; whatever the failure is,   *)
(* it is handed to logFatal and the process exits with status 1.           *)
C7_UsageIffString ==
    LET usage == Ev("log", "print", "usage")
        example == Ev("log", "print", "example")
        n == Len(calls)
    IN  /\ (Has(usage) \/ Has(example)) => pc = "exited" /\ err.type = "string"
        /\ (pc = "exited" /\ err # NoErr) =>
             /\ calls[n] = Ev("logFatal", "print", err.from)
             /\ fatal = [kind |-> "error", dir |-> "", type |-> err.type]
             /\ exitCode = <<1>>
             /\ err.type = "string" =>
                  /\ n >= 3
                  /\ calls[n - 2] = usage
                  /\ calls[n - 1] = example
                  /\ \A i \in 1..(n - 3) : calls[i] # usage /\ calls[i] # example
             /\ Cardinality({i \in 1..n : calls[i].op = "logFatal"}) = 1

\* a string rejected by the dependency install, reported with the usage lines
C7_Witness ==
    /\ pc = "exited"
    /\ err = [type |-> "string", from |-> "npmInstall"]
    /\ Has(Ev("log", "print", "usage"))

Prompts(f) == Cardinality({i \in DOMAIN calls : calls[i] = Ev("prompt", "call", f)})

(* C8: a non-empty dir, name or id is used as given and is not prompted     *)
(* for; an empty one is prompted for once and resolves to what was         *)
(* entered, an empty entry giving App for the name, com.example.app for    *)
(* the id and the empty string for the directory.                          *)
C8_Resolution ==
    /\ \A f \in {"dir", "name", "id"} : Prompts(f) <= 1
    /\ appDir # Unset =>
         IF dir # ""
         THEN appDir = dir /\ Prompts("dir") = 0
         ELSE Prompts("dir") = 1 /\ appDir = typed.dir
    /\ appName # Unset =>
         IF name # ""
         THEN appName = name /\ Prompts("name") = 0
         ELSE /\ Prompts("name") = 1
              /\ appName = IF typed.name = "" THEN "App" ELSE typed.name
    /\ appId # Unset =>
         IF id # ""
         THEN appId = id /\ Prompts("id") = 0
         ELSE /\ Prompts("id") = 1
              /\ appId = IF typed.id = "" THEN "com.example.app" ELSE typed.id

\* all three prompted and answered blank
C8_Witness ==
    /\ dir = "" /\ name = "" /\ id = ""
    /\ typed = [dir |-> "", name |-> "", id |-> ""]
    /\ appDir = "" /\ appName = "App" /\ appId = "com.example.app"

C10_RerunFailsAtProvisioning ==
    (run > 1 /\ appDir \in past) =>
      /\ \A i \in DOMAIN calls : calls[i].op \notin Mutators
      /\ <<fs, files>> = fsAtStart
      /\ \/ pc = "makeDirectory" /\ pending = NoCall
         \/ pc = "makeDirectoryExists" /\ pending.op = "existsAsync"
         \/ pc = "makeDirectoryExists" /\ pending = NoCall /\ exists
         \/ /\ pc = "exited"
            /\ fatal = [kind |-> "exists", dir |-> appDir, type |-> "string"]
            /\ exitCode = <<1>>

\* the second run ended on the directory the first run had created and then
\* failed in
C10_Witness ==
    /\ run = 2
    /\ appDir \in past
    /\ appDir = "myapp"
    /\ <<"myapp", "cpAsync", "myapp">> \in files
    /\ pc = "exited"
    /\ fatal.kind = "exists"

\* the success report comes once, after every step of the run succeeded
ReportAfterAllSteps ==
    LET R == {i \in DOMAIN calls : calls[i].op = "printNextSteps"}
    IN  /\ Cardinality(R) <= 1
        /\ \A i \in R :
             /\ \A j \in 1..i : calls[j].ev # "fail"
             /\ Before(Ev("check", "ok", ""), i)
             /\ Before(Ev("mkdirAsync", "ok", appDir), i)
             /\ Before(Ev("getOrCreateConfig", "ok", appDir), i)
             /\ Before(Ev("cpAsync", "ok", appDir), i)
             /\ Before(Ev("npmInstall", "ok", appDir), i)
             /\ os = "mac" =>
                  /\ Before(Ev("addIOS", "ok", ""), i)
                  /\ Before(Ev("sync", "ok", "ios"), i)
                  /\ Before(Ev("editProjectSettingsIOS", "ok", ""), i)
             /\ Before(Ev("addAndroid", "ok", ""), i)
             /\ Before(Ev("sync", "ok", "android"), i)
             /\ Before(Ev("editProjectSettingsAndroid", "ok", ""), i)
             /\ Before(Ev("copy", "ok", "web"), i)
             /\ i = Len(calls)

(* C11: the success report is printed at most once, only after every        *)
(* preceding step of the run has completed successfully, and the directory *)
(* it names is the resolved target directory of the run.                   *)
C11_ReportNamesTargetDir ==
    /\ ReportAfterAllSteps
    /\ \A i \in DOMAIN calls :
         calls[i].op = "printNextSteps" => calls[i].arg = appDir

(* C12: once config.app.appName and config.app.appId are set they are       *)
(* non-empty values that checkAppName and checkAppId passed, and that      *)
(* passed them before the first filesystem mutation of the run, whether    *)
(* they came from the caller or from a prompt.                             *)
C12_ConfigIdentityValidated ==
    /\ config.appName # Unset =>
         /\ config.appName # ""
         /\ Has(Ev("checkAppName", "ok", config.appName))
         /\ \A i \in DOMAIN calls :
              calls[i].op \in Mutators =>
                Before(Ev("checkAppName", "ok", config.appName), i)
    /\ config.appId # Unset =>
         /\ config.appId # ""
         /\ Has(Ev("checkAppId", "ok", config.appId))
         /\ \A i \in DOMAIN calls :
              calls[i].op \in Mutators =>
                Before(Ev("checkAppId", "ok", config.appId), i)

(* C13: a failure raised by provisioning, config materialization, template  *)
(* copy, dependency install or a platform step is reported through         *)
(* logFatal without the usage lines, whatever its value; only a failure    *)
(* raised by a Validator check prints them.                                *)
C13_UsageOnlyForValidation ==
    LET usage == Has(Ev("log", "print", "usage")) \/ Has(Ev("log", "print", "example"))
        reported == calls[Len(calls)] = Ev("logFatal", "print", err.from)
    IN  /\ err.from \in {"mkdirAsync", "getOrCreateConfig", "cpAsync", "npmInstall",
                         "addIOS", "addAndroid", "sync", "editProjectSettingsIOS",
                         "editProjectSettingsAndroid"} =>
             /\ ~usage
             /\ pc = "exited" => reported
        /\ (err.from \in {"checkAppDir", "checkAppId", "checkAppName"}
              /\ pc = "exited") => usage /\ reported

(* C14: getOrCreateConfig is invoked only after the working directory was   *)
(* set to the created directory and appName, appId (the resolved values)   *)
(* and bundledWebRuntime = true were assigned; once it has completed, the  *)
(* configuration persisted at the workspace root holds the appName and     *)
(* appId of the configuration in memory.                                   *)
C14_ConfigMaterialized ==
    /\ \A i \in DOMAIN calls :
         calls[i].op = "getOrCreateConfig" =>
           /\ Before(Ev("mkdirAsync", "ok", appDir), i)
           /\ Before(Ev("setCurrentWorkingDir", "done", appDir), i)
           /\ Before(Ev("setDefaults", "done", ""), i)
           /\ calls[i].arg = appDir
    /\ Invoked("getOrCreateConfig") =>
         /\ appName # Unset /\ appId # Unset
         /\ config = [cwd |-> appDir, appName |-> appName, appId |-> appId,
                      bundledWebRuntime |-> TRUE]
    /\ Has(Ev("getOrCreateConfig", "ok", appDir)) =>
         {p \in persisted : p.dir = config.cwd}
           = {[dir |-> appDir, appName |-> config.appName, appId |-> config.appId]}

\* the configuration of a prompted, defaulted name is on disk
C14_Witness ==
    /\ Has(Ev("getOrCreateConfig", "ok", "myapp"))
    /\ [dir |-> "myapp", appName |-> "App", appId |-> "com.example.myapp"] \in persisted
    /\ config.appName = "App"

\* what lies in the directory d
Inside(d) == {f \in files : f[1] = d}

(* C15 as stated: when the template copy starts, the workspace directory    *)
(* is empty.                                                               *)
C15_WorkspaceEmptyAtCopy ==
    pending.op = "cpAsync" => Inside(pending.arg) = {}

(* C15: when the template copy starts, the workspace directory holds what   *)
(* getOrCreateConfig wrote at the workspace root and nothing else.         *)
C15_OnlyConfigAtCopy ==
    pending.op = "cpAsync" =>
      /\ pending.arg = appDir
      /\ Inside(appDir) = {<<appDir, "getOrCreateConfig", appDir>>}
      /\ \E p \in persisted : p.dir = appDir

\* the copy has started into myapp
C15_Witness ==
    pending = [op |-> "cpAsync", arg |-> "myapp", dflt |-> ""]

\* the stages from provisioning through platform bootstrap, section 4.3-4.6
Stages == Mutators \ {"copy"}

\* a runTask indicator: started at j and not yet succeeded before i
OpenTask(j, i) ==
    /\ j < i
    /\ calls[j].op = "runTask" /\ calls[j].ev = "start"
    /\ \A k \in (j + 1)..(i - 1) : calls[k] # runTaskSucceed(calls[j].arg)

\* C16: every stage from directory creation through the platform edits runs
\* inside runTask: a start indicator precedes the stage's call, the success
\* indicator follows a completed call only, and template copy and dependency
\* install are two separate tasks
C16_EveryStageThroughRunTask ==
    /\ \A i \in DOMAIN calls :
          (calls[i].ev = "call" /\ calls[i].op \in Stages)
              => \E j \in DOMAIN calls : OpenTask(j, i)
    /\ \A i \in DOMAIN calls :
          calls[i].ev = "succeed" => (i > 1 /\ calls[i - 1].ev = "ok")
    /\ \A i, k \in DOMAIN calls :
          (calls[i] = Ev("cpAsync", "call", appDir) /\ calls[k] = Ev("npmInstall", "call", appDir))
              => ~ \E j \in DOMAIN calls : OpenTask(j, i) /\ OpenTask(j, k)


\* the mutating steps of a run on this host, in the order of lines 57-71
StepOrder ==
    <<[op |-> "mkdirAsync", arg |-> appDir],
      [op |-> "getOrCreateConfig", arg |-> appDir],
      [op |-> "cpAsync", arg |-> appDir],
      [op |-> "npmInstall", arg |-> appDir]>>
    \o (IF os = "mac"
        THEN <<[op |-> "addIOS", arg |-> ""], [op |-> "sync", arg |-> "ios"]>>
        ELSE <<>>)
    \o <<[op |-> "addAndroid", arg |-> ""], [op |-> "sync", arg |-> "android"]>>
    \o (IF os = "mac" THEN <<[op |-> "editProjectSettingsIOS", arg |-> ""]>> ELSE <<>>)
    \o <<[op |-> "editProjectSettingsAndroid", arg |-> ""]>>

IsStepEv(e) == e.op \in Stages \cup {"printNextSteps"}

\* C17: in a successful run directory creation, config get-or-create, template
\* copy, dependency install, platform add and sync, and the platform edits are
\* each called once, in this order, each one completed before the next is
\* called, and the report is printed once after the last of them; in every run
\* a step that was called completes or fails before anything else happens
C17_StepsOnceInOrder ==
    LET evs == SelectSeq(calls, IsStepEv)
        n == Len(StepOrder)
    IN  /\ pc = "done" =>
              /\ Len(evs) = 2 * n + 1
              /\ \A k \in 1..n :
                    /\ evs[2 * k - 1] = Ev(StepOrder[k].op, "call", StepOrder[k].arg)
                    /\ evs[2 * k] = Ev(StepOrder[k].op, "ok", StepOrder[k].arg)
              /\ evs[2 * n + 1].op = "printNextSteps"
        /\ \A i \in DOMAIN calls :
              (calls[i].ev = "call" /\ calls[i].op \in Stages /\ i < Len(calls))
                  => /\ calls[i + 1].op = calls[i].op
                     /\ calls[i + 1].arg = calls[i].arg
                     /\ calls[i + 1].ev \in {"ok", "fail"}

\* a successful run: the report is printed after the project-setting edits
C17_Witness ==
    /\ pc = "done"
    /\ Has(Ev("printNextSteps", "print", basename(config.cwd)))
    /\ Has(Ev("editProjectSettingsAndroid", "ok", ""))
    /\ Has(Ev("mkdirAsync", "ok", appDir))


\* two invocations of the same collaborator operation: the same check, the
\* prompt for the same field, the sync of the same platform, or the same
\* filesystem call, subprocess or platform mutator
SameOperation(a, b) ==
    /\ a.ev = "call" /\ b.ev = "call"
    /\ a.op = b.op
    /\ a.op \in {"prompt", "sync"} => a.arg = b.arg

\* C18: provided every awaited collaborator call resolves or rejects, every run
\* ends, completed or exited after a failure, and within a run no collaborator
\* operation is invoked a second time
C18_TerminatesWithoutRetry ==
    /\ <>(pc \in {"done", "exited"})
    /\ [](\A i, j \in DOMAIN calls : SameOperation(calls[i], calls[j]) => i = j)

\* a run that ended after the rejection of an operation it had invoked
C18_Witness ==
    /\ pc = "exited"
    /\ Has(Ev("npmInstall", "call", appDir))
    /\ Has(Ev("npmInstall", "fail", appDir))
    /\ fatal # NoFatal


\* how often createCommand has assigned the working directory, and the
\* appName, appId and bundledWebRuntime fields, in this run
Assignments(what) ==
    Cardinality({i \in DOMAIN calls : calls[i].op = what /\ calls[i].ev = "done"})

\* C19: createCommand leaves the configuration as it was until mkdirAsync has
\* succeeded, so a run that fails in validation, directory resolution or
\* provisioning ends with the initial working directory, appName, appId and
\* bundledWebRuntime.  After that the working directory is set once, to the
\* created directory, and appName, appId and bundledWebRuntime are assigned
\* once; no later step and no failure changes them again or restores them.
C19_ConfigSetOnceAfterProvisioning ==
    /\ [](~Has(Ev("mkdirAsync", "ok", appDir)) => config = InitConfig)
    /\ [](/\ Assignments("setCurrentWorkingDir") <= 1
          /\ Assignments("setDefaults") <= 1
          /\ Assignments("setCurrentWorkingDir") = 0 => config.cwd = InitConfig.cwd
          /\ Assignments("setDefaults") = 0 =>
                /\ config.appName = InitConfig.appName
                /\ config.appId = InitConfig.appId
                /\ config.bundledWebRuntime = InitConfig.bundledWebRuntime
          /\ pc = "done" =>
                /\ Assignments("setCurrentWorkingDir") = 1
                /\ Assignments("setDefaults") = 1
                /\ config = [cwd |-> appDir, appName |-> appName, appId |-> appId,
                             bundledWebRuntime |-> TRUE])
    /\ [][/\ config'.cwd # config.cwd =>
                /\ config.cwd = InitConfig.cwd
                /\ config'.cwd = appDir
                /\ Assignments("setCurrentWorkingDir") = 0
          /\ (\/ config'.appName # config.appName
              \/ config'.appId # config.appId
              \/ config'.bundledWebRuntime # config.bundledWebRuntime) =>
                /\ Assignments("setDefaults") = 0
                /\ config'.appName = appName
                /\ config'.appId = appId
                /\ config'.bundledWebRuntime = TRUE]_vars

\* a run that failed at the template copy, after the configuration was set
C19_Witness ==
    /\ pc = "exited"
    /\ Has(Ev("cpAsync", "fail", appDir))
    /\ config = [cwd |-> appDir, appName |-> appName, appId |-> appId,
                 bundledWebRuntime |-> TRUE]
    /\ config # InitConfig

====
